---- MODULE Spec2Model ----
(***************************************************************************)
(* StudyMate backend (src/app.py): a Flask application over three MongoDB  *)
(* collections (paragraphs, chats, gemini_chats) and a language model.     *)
(*                                                                         *)
(* Every request handler is a sequence of atomic steps, one per call to    *)
(* the store or to the language model; the local computation between two   *)
(* calls belongs to the step of the call that follows or precedes it.      *)
(* Handlers run on worker threads (Slots) and interleave step by step.     *)
(*                                                                         *)
(* Strings the code computes on (questions, paragraph texts, record        *)
(* identifiers) are sequences of one-character strings.  Usernames are     *)
(* atoms; "" is the missing or empty username.  The timestamp field of a   *)
(* chat record is not modelled: no handler modelled here reads it.         *)
(***************************************************************************)
EXTENDS Integers, Sequences, FiniteSets, TLC

\* ------------------------------------------------------------- bounds
\* Requests issued in one behaviour.
MaxRequests == 3
\* Longest corpus the ranking specification starts from.
MaxCorpus == 4
\* int(chat_id) is computed exactly up to IntCap and saturates there
\* (Python integers are unbounded; only the comparison with the length of
\* a collection, which stays below IntCap, reads the value).
IntCap == 9
\* The value of the ObjectId counter when the process starts (pymongo
\* draws it at random).
OidCounterStart == 9

\* --------------------------------------------------- program constants
\* scored[:3] and all_paragraphs[:3]
TopK == 3
\* An ObjectId is 12 bytes, written as 24 hexadecimal digits.
OidLen == 24

\* ------------------------------------------------------------ strings
Whitespace == {" ", "\n", "\t"}

UpperLetters ==
  <<"A","B","C","D","E","F","G","H","I","J","K","L","M",
    "N","O","P","Q","R","S","T","U","V","W","X","Y","Z">>

LowerLetters ==
  <<"a","b","c","d","e","f","g","h","i","j","k","l","m",
    "n","o","p","q","r","s","t","u","v","w","x","y","z">>

DecDigits == <<"0","1","2","3","4","5","6","7","8","9">>

HexDigits == <<"0","1","2","3","4","5","6","7","8","9","a","b","c","d","e","f">>

Range(f) == {f[x] : x \in DOMAIN f}

Min(a, b) == IF a <= b THEN a ELSE b

\* str.lower() on one character
LowerChar(c) ==
  IF \E k \in DOMAIN UpperLetters : UpperLetters[k] = c
    THEN LowerLetters[CHOOSE k \in DOMAIN UpperLetters : UpperLetters[k] = c]
    ELSE c

\* str.lower()
Lower(s) == [k \in 1..Len(s) |-> LowerChar(s[k])]

\* str.strip(): leading and trailing whitespace removed
Strip(s) ==
  LET keep == {k \in 1..Len(s) : s[k] \notin Whitespace}
  IN  IF keep = {} THEN <<>>
      ELSE LET lo == CHOOSE k \in keep : \A j \in keep : k <= j
               hi == CHOOSE k \in keep : \A j \in keep : k >= j
           IN  SubSeq(s, lo, hi)

\* str.split() with no separator: the maximal runs of non-whitespace
RECURSIVE SplitWords(_)
SplitWords(s) ==
  IF s = <<>> THEN <<>>
  ELSE IF s[1] \in Whitespace THEN SplitWords(Tail(s))
  ELSE LET stops == {k \in 1..Len(s) : s[k] \in Whitespace}
           end == IF stops = {} THEN Len(s) + 1
                  ELSE CHOOSE k \in stops : \A j \in stops : k <= j
       IN  <<SubSeq(s, 1, end - 1)>> \o SplitWords(SubSeq(s, end, Len(s)))

\* text.split('\n\n'): cut at each blank line, left to right, empty pieces kept
RECURSIVE SplitBlankLines(_)
SplitBlankLines(s) ==
  LET cuts == {k \in 1..(Len(s) - 1) : s[k] = "\n" /\ s[k + 1] = "\n"}
  IN  IF cuts = {} THEN <<s>>
      ELSE LET c == CHOOSE k \in cuts : \A j \in cuts : k <= j
           IN  <<SubSeq(s, 1, c - 1)>> \o SplitBlankLines(SubSeq(s, c + 2, Len(s)))

\* word in para
Contains(para, word) ==
  \E k \in 0..(Len(para) - Len(word)) : SubSeq(para, k + 1, k + Len(word)) = word

\* "\n\n".join(parts)
RECURSIVE JoinBlankLines(_)
JoinBlankLines(parts) ==
  IF parts = <<>> THEN <<>>
  ELSE IF Len(parts) = 1 THEN parts[1]
  ELSE parts[1] \o <<"\n", "\n">> \o JoinBlankLines(Tail(parts))

\* ----------------------------------------------------- PDF extraction
\* A file is its bytes as PyMuPDF sees them: not a PDF (fitz.open raises),
\* or the text of each page.
\* extract_paragraphs_from_pdf, for a file fitz can open
RECURSIVE ExtractPages(_)
ExtractPages(pages) ==
  IF pages = <<>> THEN <<>>
  ELSE LET pieces == SplitBlankLines(pages[1])
           stripped == [k \in 1..Len(pieces) |-> Strip(pieces[k])]
           paras == SelectSeq(stripped, LAMBDA p : p # <<>>)
       IN  paras \o ExtractPages(Tail(pages))

extract_paragraphs_from_pdf(file) == ExtractPages(file.pages)

\* ------------------------------------------------------ the collections
\* The clearing left out.
DeleteManyNothing(col, username) == col

\* delete_many({"username": username})
DeleteMany(col, username) == SelectSeq(col, LAMBDA d : d.username # username)

\* find({"username": username}), in natural (insertion) order
Find(col, username) == SelectSeq(col, LAMBDA d : d.username = username)

\* insert_one(doc)
InsertOne(col, doc) == Append(col, doc)

HasId(col, id) == \E k \in 1..Len(col) : col[k]._id = id

\* delete_one({"_id": id}): the first document with that _id, if any
DeleteOne(col, id) ==
  IF ~HasId(col, id) THEN col
  ELSE LET k == CHOOSE j \in 1..Len(col) :
                  col[j]._id = id /\ \A h \in 1..(j - 1) : col[h]._id # id
       IN  SubSeq(col, 1, k - 1) \o SubSeq(col, k + 1, Len(col))

\* ------------------------------------------------------------ ObjectId
IsHexChar(c) == LowerChar(c) \in Range(HexDigits)

\* bson.ObjectId(chat_id) raises InvalidId unless chat_id is 24 hex digits
ObjectIdValid(s) == Len(s) = OidLen /\ \A k \in 1..Len(s) : IsHexChar(s[k])

\* the value of ObjectId(chat_id): its 12 bytes, written in lower case
ObjectId(s) == Lower(s)

HexValue(c) == (CHOOSE k \in DOMAIN HexDigits : HexDigits[k] = c) - 1

\* ObjectIds compare byte by byte
RECURSIVE OidLess(_, _)
OidLess(a, b) ==
  IF a = <<>> \/ b = <<>> THEN a = <<>> /\ b # <<>>
  ELSE IF a[1] = b[1] THEN OidLess(Tail(a), Tail(b))
  ELSE HexValue(a[1]) < HexValue(b[1])

\* The _id the driver gives the n-th document this process inserts: a 4-byte
\* time, 5 bytes drawn once per process, and a 3-byte counter.
OidTimeAndProcess ==
  <<"6","9","0","0","0","0","0","0","0","0","0","0","0","0","0","0","0","0">>

OidOf(n) ==
  OidTimeAndProcess \o
  [k \in 1..6 |-> HexDigits[((n \div (16 ^ (6 - k))) % 16) + 1]]

\* str.isdigit()
isdigit(s) == s # <<>> /\ \A k \in 1..Len(s) : s[k] \in Range(DecDigits)

DigitValue(c) == (CHOOSE k \in DOMAIN DecDigits : DecDigits[k] = c) - 1

\* int(chat_id), saturating at IntCap
RECURSIVE IntFrom(_, _)
IntFrom(s, acc) ==
  IF s = <<>> THEN acc
  ELSE IntFrom(Tail(s), Min(IntCap, acc * 10 + DigitValue(s[1])))

int(s) == IntFrom(s, 0)

\* collection.find().sort("_id", 1)
RECURSIVE InsertById(_, _)
InsertById(sorted, d) ==
  IF sorted = <<>> THEN <<d>>
  ELSE IF OidLess(d._id, sorted[1]._id) THEN <<d>> \o sorted
  ELSE <<sorted[1]>> \o InsertById(Tail(sorted), d)

RECURSIVE SortById(_)
SortById(col) ==
  IF col = <<>> THEN <<>>
  ELSE InsertById(SortById(SubSeq(col, 1, Len(col) - 1)), col[Len(col)])

\* ------------------------------------------------------------- ranking
\* sum(word in para.lower() for word in keywords)
RECURSIVE Score(_, _)
Score(para, keywords) ==
  IF keywords = <<>> THEN 0
  ELSE (IF Contains(Lower(para), keywords[1]) THEN 1 ELSE 0)
       + Score(para, Tail(keywords))

\* the loop that fills scored: the paragraphs with score > 0, in corpus order
RECURSIVE Scored(_, _)
Scored(all_paragraphs, keywords) ==
  IF all_paragraphs = <<>> THEN <<>>
  ELSE LET score == Score(all_paragraphs[1], keywords)
           rest == Scored(Tail(all_paragraphs), keywords)
       IN  IF score > 0
             THEN <<[para |-> all_paragraphs[1], score |-> score]>> \o rest
             ELSE rest

\* Descending by score, entries of equal score reversed.
RECURSIVE InsertByScoreReversing(_, _)
InsertByScoreReversing(sorted, x) ==
  IF sorted = <<>> THEN <<x>>
  ELSE IF sorted[1].score > x.score
    THEN <<sorted[1]>> \o InsertByScoreReversing(Tail(sorted), x)
  ELSE <<x>> \o sorted

\* list.sort is stable, also with reverse=True: an entry goes behind every
\* entry whose score is at least its own
RECURSIVE InsertByScore(_, _)
InsertByScore(sorted, x) ==
  IF sorted = <<>> THEN <<x>>
  ELSE IF sorted[1].score >= x.score
    THEN <<sorted[1]>> \o InsertByScore(Tail(sorted), x)
  ELSE <<x>> \o sorted

RECURSIVE SortByScoreReversing(_)
SortByScoreReversing(scored) ==
  IF scored = <<>> THEN <<>>
  ELSE InsertByScoreReversing(
         SortByScoreReversing(SubSeq(scored, 1, Len(scored) - 1)),
         scored[Len(scored)])

\* scored.sort(key=lambda x: x[1], reverse=True)
RECURSIVE SortByScore(_)
SortByScore(scored) ==
  IF scored = <<>> THEN <<>>
  ELSE InsertByScore(SortByScore(SubSeq(scored, 1, Len(scored) - 1)),
                     scored[Len(scored)])

\* seq[:n]
Take(seq, n) == SubSeq(seq, 1, Min(n, Len(seq)))

\* The fallback taken whenever some keyword is given, matching or not.
TopParagraphsNoFallbackOnMiss(all_paragraphs, keywords) ==
  LET scored == SortByScore(Scored(all_paragraphs, keywords))
  IN  IF keywords # <<>>
        THEN [k \in 1..Min(TopK, Len(scored)) |-> scored[k].para]
        ELSE Take(all_paragraphs, TopK)

\* top_paragraphs = [p[0] for p in scored[:3]] if scored else all_paragraphs[:3]
TopParagraphs(all_paragraphs, keywords) ==
  LET scored == SortByScore(Scored(all_paragraphs, keywords))
  IN  IF scored # <<>>
        THEN [k \in 1..Min(TopK, Len(scored)) |-> scored[k].para]
        ELSE Take(all_paragraphs, TopK)

PromptHead ==
  <<"A","n","s","w","e","r"," ","t","h","e"," ","q","u","e","s","t","i","o","n",
    " ","u","s","i","n","g"," ","o","n","l","y"," ","t","h","e"," ","f","o","l",
    "l","o","w","i","n","g"," ","c","o","n","t","e","x","t","."," ","D","o"," ",
    "n","o","t"," ","u","s","e"," ","e","x","t","e","r","n","a","l"," ","k","n",
    "o","w","l","e","d","g","e",".","\n","\n","C","o","n","t","e","x","t",":","\n">>

PromptQuestion == <<"\n","\n","Q","u","e","s","t","i","o","n",":"," ">>

\* context = "\n\n".join(top_paragraphs) inside the prompt template
Prompt(top_paragraphs, question) ==
  PromptHead \o JoinBlankLines(top_paragraphs) \o PromptQuestion \o question

\* -------------------------------------------------------------- inputs
Users == {"u", "v"}

\* worker threads serving requests
Slots == {"t1", "t2"}

FileA == [valid |-> TRUE, pages |-> << <<"C","a","t","\n","\n","d","o","g">> >>]

FileB == [valid |-> TRUE, pages |-> << <<" ","O","x"," ","\n","\n","\n","\n">> >>]

NotAPdf == [valid |-> FALSE, pages |-> <<>>]

\* request.files: without a "files" part, or getlist("files")
NoFilesPart == [present |-> FALSE, list |-> <<>>]

FilesPart(list) == [present |-> TRUE, list |-> list]

\* The username "" is a missing or empty username.
UploadInputs ==
  {[username |-> "", files |-> FilesPart(<<FileB>>)],
   [username |-> "v", files |-> FilesPart(<<FileB>>)]} \cup
  {[username |-> "u", files |-> f] :
     f \in {NoFilesPart, FilesPart(<<FileB>>), FilesPart(<<FileA, FileB>>),
            FilesPart(<<FileB, NotAPdf>>)}}

AskInputs ==
  {[username |-> "", raw |-> <<"c","a","t">>],
   [username |-> "v", raw |-> <<"c","a","t">>]} \cup
  {[username |-> "u", raw |-> q] :
     q \in {<<" ">>, <<"c","a","t">>, <<"e","m","u">>}}

ChatInputs ==
  {[username |-> "", raw |-> <<"H","i">>],
   [username |-> "u", raw |-> <<" "," ">>],
   [username |-> "u", raw |-> <<"H","i">>],
   [username |-> "v", raw |-> <<"H","i">>]}

ZeroId ==
  <<"0","0","0","0","0","0","0","0","0","0","0","0",
    "0","0","0","0","0","0","0","0","0","0","0","0">>

ChatIds ==
  {<<"0">>, <<"1">>, <<"z","z">>, ZeroId,
   OidOf(OidCounterStart), OidOf(OidCounterStart + 1)}

\* The route carries no username: username is the user whose client sends
\* the request.
DeleteInputs ==
  {[username |-> "u", source |-> "txt", chat_id |-> <<"0">>]} \cup
  {[username |-> u, source |-> src, chat_id |-> id] :
     u \in Users, src \in {"pdf", "gemini"}, id \in ChatIds}

\* inputs of the ranking specification
RankTexts ==
  {<<"T","h","e"," ","c","a","t"," ","s","a","t",".">>,
   <<"D","o","g","s"," ","b","a","r","k"," ","l","o","u","d","l","y",".">>,
   <<"C","a","t","s"," ","a","n","d"," ","d","o","g","s"," ","p","l","a","y",".">>,
   <<"E","m","u",".">>}

RankInputs ==
  {[username |-> "u", raw |-> q] :
     q \in {<<>>, <<" "," ">>, <<"c","a","t"," ","d","o","g">>,
            <<" ","C","A","T"," "," ","c","a","t"," ">>, <<"e","m","u">>,
            <<"y","a","k">>, <<"d","o","g","s"," ","y","a","k">>}}

\* --------------------------------------------------------------- state
VARIABLES
  paragraphs_col,  \* db["paragraphs"]: documents in insertion order
  chats_col,       \* db["chats"]
  gemini_chats,    \* db["gemini_chats"]
  oid_counter,     \* the ObjectId counter of the process
  req,             \* per worker thread: the request it serves and its locals
  started,         \* requests issued so far
  hist             \* history, per owner: the latest upload and its fate

vars == <<paragraphs_col, chats_col, gemini_chats, oid_counter, req, started, hist>>

stores == <<paragraphs_col, chats_col, gemini_chats>>

\* A thread serving nothing.  status is the HTTP status of the response (0:
\* none yet); calls, inserted and deleted count the language-model calls made
\* and the documents written by the request; seen_upload, existed and
\* by_index record what the request saw, for the properties below.
IdleReq ==
  [kind |-> "idle", pc |-> "idle", username |-> "", status |-> 0,
   files |-> NoFilesPart, fi |-> 0, paragraphs |-> <<>>, i |-> 0,
   raw |-> <<>>, question |-> <<>>, all_paragraphs |-> <<>>,
   top_paragraphs |-> <<>>, prompt |-> <<>>, answer |-> "None",
   source |-> "", chat_id |-> <<>>, target_id |-> <<>>,
   calls |-> 0, inserted |-> 0, deleted |-> 0,
   seen_upload |-> <<>>, existed |-> FALSE, by_index |-> FALSE]

NoHistory == [last |-> <<>>, state |-> "none", overlapped |-> FALSE]

\* the document of paragraph i of a file
ParagraphDoc(username, i, para) ==
  [username |-> username, index |-> i, text |-> para]

\* the store after an upload of one file with these paragraphs
Uploaded(username, paragraphs) ==
  [k \in 1..Len(paragraphs) |-> ParagraphDoc(username, k - 1, paragraphs[k])]

Init ==
  /\ paragraphs_col = <<>>
  /\ chats_col = <<>>
  /\ gemini_chats = <<>>
  /\ oid_counter = OidCounterStart
  /\ req = [s \in Slots |-> IdleReq]
  /\ started = 0
  /\ hist = [u \in Users |-> NoHistory]

\* The response leaves the handler, and the handler's locals go.  What the
\* request was and what it did stay on record until the thread takes the
\* next request.
Done(r, status) ==
  [IdleReq EXCEPT !.kind = r.kind, !.pc = "done", !.status = status,
                  !.username = r.username, !.raw = r.raw,
                  !.files = r.files, !.source = r.source,
                  !.chat_id = r.chat_id, !.calls = r.calls,
                  !.inserted = r.inserted, !.deleted = r.deleted,
                  !.existed = r.existed, !.by_index = r.by_index]

Texts(docs) == [k \in 1..Len(docs) |-> docs[k].text]

\* ------------------------------------------------------------ requests
\* A request goes to a thread that serves none (it is idle, or its last
\* response has left); threads are alike, so the first such thread takes it.
Free(s) == req[s].pc \in {"idle", "done"}

Issue(s, r) ==
  /\ Free(s)
  /\ s = "t1" \/ ~Free("t1")
  /\ started < MaxRequests
  /\ req' = [req EXCEPT ![s] = r]
  /\ started' = started + 1
  /\ UNCHANGED <<stores, oid_counter, hist>>

RequestUpload(s) ==
  \E in \in UploadInputs :
    Issue(s, [IdleReq EXCEPT !.kind = "upload", !.pc = "start",
                             !.username = in.username, !.files = in.files])

RequestAskFrom(s, inputs) ==
  \E in \in inputs :
    Issue(s, [IdleReq EXCEPT !.kind = "ask", !.pc = "start",
                             !.username = in.username, !.raw = in.raw])

RequestAsk(s) == RequestAskFrom(s, AskInputs)

RankRequestAsk(s) == RequestAskFrom(s, RankInputs)

RequestChat(s) ==
  \E in \in ChatInputs :
    Issue(s, [IdleReq EXCEPT !.kind = "gemini", !.pc = "start",
                             !.username = in.username, !.raw = in.raw])

RequestDelete(s) ==
  \E in \in DeleteInputs :
    Issue(s, [IdleReq EXCEPT !.kind = "delete", !.pc = "start",
                             !.username = in.username, !.source = in.source,
                             !.chat_id = in.chat_id])

\* -------------------------------------------------------------- upload
\* the paragraphs an upload carries: those of its files, up to the first
\* file fitz cannot open
RECURSIVE Carried(_)
Carried(list) ==
  IF list = <<>> \/ ~list[1].valid THEN <<>>
  ELSE extract_paragraphs_from_pdf(list[1]) \o Carried(Tail(list))

\* upload_pdf up to the check of request.files
UploadClear(s) ==
  LET r == req[s]
      cleared == DeleteMany(paragraphs_col, r.username)
      n == Len(paragraphs_col) - Len(cleared)
  IN  /\ r.kind = "upload" /\ r.pc = "start"
      /\ IF r.username = ""
           THEN /\ req' = [req EXCEPT ![s] = Done(r, 400)]
                /\ UNCHANGED <<paragraphs_col, hist>>
           ELSE /\ paragraphs_col' = cleared
                /\ req' = [req EXCEPT ![s] =
                     IF r.files.present
                       THEN [r EXCEPT !.pc = "file", !.fi = 1, !.deleted = n]
                       ELSE Done([r EXCEPT !.deleted = n], 400)]
                /\ hist' = [hist EXCEPT ![r.username] =
                     [last |-> Carried(r.files.list),
                      state |-> IF r.files.present THEN "running" ELSE "failed",
                      overlapped |-> @.overlapped \/ @.state = "running"]]
      /\ UNCHANGED <<chats_col, gemini_chats, oid_counter, started>>

\* the head of the loop over the files, and extract_paragraphs_from_pdf
UploadExtract(s) ==
  LET r == req[s]
  IN  /\ r.kind = "upload" /\ r.pc = "file"
      /\ IF r.fi > Len(r.files.list)
           THEN /\ req' = [req EXCEPT ![s] = Done(r, 200)]
                /\ hist' = [hist EXCEPT ![r.username].state = "ok"]
           ELSE IF ~r.files.list[r.fi].valid
           THEN /\ req' = [req EXCEPT ![s] = Done(r, 500)]
                /\ hist' = [hist EXCEPT ![r.username].state = "failed"]
           ELSE LET paragraphs == extract_paragraphs_from_pdf(r.files.list[r.fi])
                IN  /\ req' = [req EXCEPT ![s] =
                         IF paragraphs = <<>>
                           THEN [r EXCEPT !.fi = @ + 1]
                           ELSE [r EXCEPT !.pc = "insert", !.i = 0,
                                          !.paragraphs = paragraphs]]
                    /\ UNCHANGED hist
      /\ UNCHANGED <<stores, oid_counter, started>>

\* one insert_one of the inner loop
UploadInsert(s) ==
  LET r == req[s]
  IN  /\ r.kind = "upload" /\ r.pc = "insert"
      /\ paragraphs_col' = InsertOne(paragraphs_col,
           ParagraphDoc(r.username, r.i, r.paragraphs[r.i + 1]))
      /\ req' = [req EXCEPT ![s] =
           IF r.i + 1 = Len(r.paragraphs)
             THEN [r EXCEPT !.pc = "file", !.fi = @ + 1, !.i = 0,
                            !.paragraphs = <<>>, !.inserted = @ + 1]
             ELSE [r EXCEPT !.i = @ + 1, !.inserted = @ + 1]]
      /\ UNCHANGED <<chats_col, gemini_chats, oid_counter, started, hist>>

\* ----------------------------------------------------- ask and chat
\* if not question or not username / if not message or not username
MissingField(text, username) == text = <<>> \/ username = ""

\* The check of the corpus left out.
NoContentNever(user_paras) == FALSE

\* if not user_paras
NoContent(user_paras) == user_paras = <<>>

\* ask_question up to the prompt: validation, the read of the corpus, ranking
AskFind(s) ==
  LET r == req[s]
      question == Strip(r.raw)
      user_paras == Find(paragraphs_col, r.username)
      all_paragraphs == Texts(user_paras)
      keywords == SplitWords(Lower(question))
      top_paragraphs == TopParagraphs(all_paragraphs, keywords)
  IN  /\ r.kind = "ask" /\ r.pc = "start"
      /\ req' = [req EXCEPT ![s] =
           IF MissingField(question, r.username) THEN Done(r, 400)
           ELSE IF NoContent(user_paras) THEN Done(r, 404)
           ELSE [r EXCEPT !.pc = "model", !.question = question,
                          !.all_paragraphs = all_paragraphs,
                          !.top_paragraphs = top_paragraphs,
                          !.prompt = Prompt(top_paragraphs, question),
                          !.seen_upload = hist[r.username].last]]
      /\ UNCHANGED <<stores, oid_counter, started, hist>>

\* gemini_chat up to the model call: validation; the message is the prompt
ChatValidate(s) ==
  LET r == req[s]
      message == Strip(r.raw)
  IN  /\ r.kind = "gemini" /\ r.pc = "start"
      /\ req' = [req EXCEPT ![s] =
           IF MissingField(message, r.username) THEN Done(r, 400)
           ELSE [r EXCEPT !.pc = "model", !.question = message,
                          !.prompt = message]]
      /\ UNCHANGED <<stores, oid_counter, started, hist>>

\* model.generate_content(prompt) and response.text succeed
ModelReply(s) ==
  LET r == req[s]
  IN  /\ r.pc = "model"
      /\ req' = [req EXCEPT ![s] =
           [r EXCEPT !.pc = "save", !.answer = "ans", !.calls = @ + 1]]
      /\ UNCHANGED <<stores, oid_counter, started, hist>>

\* The failure of the model call answered 500 after a record is saved.
ModelErrorSaving(s) ==
  LET r == req[s]
  IN  /\ r.pc = "model"
      /\ req' = [req EXCEPT ![s] =
           Done([r EXCEPT !.calls = @ + 1, !.inserted = @ + 1], 500)]
      /\ gemini_chats' = InsertOne(gemini_chats,
           [_id |-> OidOf(oid_counter), username |-> r.username,
            question |-> r.question, answer |-> r.answer])
      /\ oid_counter' = oid_counter + 1
      /\ UNCHANGED <<paragraphs_col, chats_col, started, hist>>

\* model.generate_content(prompt) or response.text raises: the except branch
ModelError(s) ==
  LET r == req[s]
  IN  /\ r.pc = "model"
      /\ req' = [req EXCEPT ![s] = Done([r EXCEPT !.calls = @ + 1], 500)]
      /\ UNCHANGED <<stores, oid_counter, started, hist>>

\* chats_col.insert_one(...) and the response of ask_question
AskSave(s) ==
  LET r == req[s]
  IN  /\ r.kind = "ask" /\ r.pc = "save"
      /\ chats_col' = InsertOne(chats_col,
           [_id |-> OidOf(oid_counter), username |-> r.username,
            question |-> r.question, answer |-> r.answer,
            matched_paragraphs |-> r.top_paragraphs])
      /\ oid_counter' = oid_counter + 1
      /\ req' = [req EXCEPT ![s] = Done([r EXCEPT !.inserted = @ + 1], 200)]
      /\ UNCHANGED <<paragraphs_col, gemini_chats, started, hist>>

\* db["gemini_chats"].insert_one(...) and the response of gemini_chat
ChatSave(s) ==
  LET r == req[s]
  IN  /\ r.kind = "gemini" /\ r.pc = "save"
      /\ gemini_chats' = InsertOne(gemini_chats,
           [_id |-> OidOf(oid_counter), username |-> r.username,
            question |-> r.question, answer |-> r.answer])
      /\ oid_counter' = oid_counter + 1
      /\ req' = [req EXCEPT ![s] = Done([r EXCEPT !.inserted = @ + 1], 200)]
      /\ UNCHANGED <<paragraphs_col, chats_col, started, hist>>

\* ------------------------------------------------------ delete_history
\* the collection a source names
Collection(source) == IF source = "pdf" THEN chats_col ELSE gemini_chats

SetCollection(source, col) ==
  IF source = "pdf"
    THEN chats_col' = col /\ UNCHANGED gemini_chats
    ELSE gemini_chats' = col /\ UNCHANGED chats_col

\* delete_history up to the positional branch: the source, and deletion by
\* ObjectId
DeleteById(s) ==
  LET r == req[s]
      col == Collection(r.source)
      found == ObjectIdValid(r.chat_id) /\ HasId(col, ObjectId(r.chat_id))
  IN  /\ r.kind = "delete" /\ r.pc = "start"
      /\ IF r.source \notin {"pdf", "gemini"}
           THEN /\ req' = [req EXCEPT ![s] = Done(r, 400)]
                /\ UNCHANGED <<chats_col, gemini_chats>>
           ELSE IF found
           THEN /\ SetCollection(r.source, DeleteOne(col, ObjectId(r.chat_id)))
                /\ req' = [req EXCEPT ![s] =
                     Done([r EXCEPT !.deleted = 1, !.existed = TRUE], 200)]
           ELSE /\ req' = [req EXCEPT ![s] =
                     IF isdigit(r.chat_id) THEN [r EXCEPT !.pc = "index"]
                     ELSE Done(r, 404)]
                /\ UNCHANGED <<chats_col, gemini_chats>>
      /\ UNCHANGED <<paragraphs_col, oid_counter, started, hist>>

\* The documents newest first.
SortByIdDescending(col) ==
  LET sorted == SortById(col)
  IN  [k \in 1..Len(sorted) |-> sorted[Len(sorted) + 1 - k]]

\* chats = list(collection.find().sort("_id", 1))
FindSorted(col) == SortById(col)

\* the positional branch: the read of the collection and the choice of the
\* document at chat_index
DeleteFindIndex(s) ==
  LET r == req[s]
      chat_index == int(r.chat_id)
      chats == FindSorted(Collection(r.source))
  IN  /\ r.kind = "delete" /\ r.pc = "index"
      /\ req' = [req EXCEPT ![s] =
           IF 0 <= chat_index /\ chat_index < Len(chats)
             THEN [r EXCEPT !.pc = "target", !.by_index = TRUE,
                            !.target_id = chats[chat_index + 1]._id]
             ELSE Done([r EXCEPT !.by_index = TRUE], 404)]
      /\ UNCHANGED <<stores, oid_counter, started, hist>>

\* collection.delete_one({"_id": target_id}) and the response
DeleteTarget(s) ==
  LET r == req[s]
      col == Collection(r.source)
  IN  /\ r.kind = "delete" /\ r.pc = "target"
      /\ SetCollection(r.source, DeleteOne(col, r.target_id))
      /\ req' = [req EXCEPT ![s] =
           Done([r EXCEPT !.deleted = IF HasId(col, r.target_id) THEN 1 ELSE 0],
                200)]
      /\ UNCHANGED <<paragraphs_col, oid_counter, started, hist>>

\* ------------------------------------------------------ specifications
\* Every handler, under every interleaving of their steps.
Next ==
  \/ \E s \in Slots : RequestUpload(s)
  \/ \E s \in Slots : RequestAsk(s)
  \/ \E s \in Slots : RequestChat(s)
  \/ \E s \in Slots : RequestDelete(s)
  \/ \E s \in Slots : UploadClear(s)
  \/ \E s \in Slots : UploadExtract(s)
  \/ \E s \in Slots : UploadInsert(s)
  \/ \E s \in Slots : AskFind(s)
  \/ \E s \in Slots : ChatValidate(s)
  \/ \E s \in Slots : ModelReply(s)
  \/ \E s \in Slots : ModelError(s)
  \/ \E s \in Slots : AskSave(s)
  \/ \E s \in Slots : ChatSave(s)
  \/ \E s \in Slots : DeleteById(s)
  \/ \E s \in Slots : DeleteFindIndex(s)
  \/ \E s \in Slots : DeleteTarget(s)

Spec == Init /\ [][Next]_vars

\* The corpus: uploads and asks.
NextCorpus ==
  \/ \E s \in Slots : RequestUpload(s)
  \/ \E s \in Slots : RequestAsk(s)
  \/ \E s \in Slots : UploadClear(s)
  \/ \E s \in Slots : UploadExtract(s)
  \/ \E s \in Slots : UploadInsert(s)
  \/ \E s \in Slots : AskFind(s)
  \/ \E s \in Slots : ModelReply(s)
  \/ \E s \in Slots : ModelError(s)
  \/ \E s \in Slots : AskSave(s)

SpecCorpus == Init /\ [][NextCorpus]_vars

\* The chat history: asks, chats and deletions, after u has uploaded FileA.
InitHistory ==
  /\ paragraphs_col = Uploaded("u", Carried(<<FileA>>))
  /\ chats_col = <<>>
  /\ gemini_chats = <<>>
  /\ oid_counter = OidCounterStart
  /\ req = [s \in Slots |-> IdleReq]
  /\ started = 0
  /\ hist = [u \in Users |->
       IF u = "u"
         THEN [last |-> Carried(<<FileA>>), state |-> "ok", overlapped |-> FALSE]
         ELSE NoHistory]

NextHistory ==
  \/ \E s \in Slots : RequestAsk(s)
  \/ \E s \in Slots : RequestChat(s)
  \/ \E s \in Slots : RequestDelete(s)
  \/ \E s \in Slots : AskFind(s)
  \/ \E s \in Slots : ChatValidate(s)
  \/ \E s \in Slots : ModelReply(s)
  \/ \E s \in Slots : ModelError(s)
  \/ \E s \in Slots : AskSave(s)
  \/ \E s \in Slots : ChatSave(s)
  \/ \E s \in Slots : DeleteById(s)
  \/ \E s \in Slots : DeleteFindIndex(s)
  \/ \E s \in Slots : DeleteTarget(s)

SpecHistory == InitHistory /\ [][NextHistory]_vars

\* Ranking: one ask of u, for every question of RankInputs against every
\* corpus of at most MaxCorpus paragraphs that one uploaded file leaves.
Corpora == UNION {[1..n -> RankTexts] : n \in 0..MaxCorpus}

InitRank ==
  /\ \E corpus \in Corpora :
       /\ paragraphs_col = Uploaded("u", corpus)
       /\ hist = [u \in Users |->
            IF u = "u"
              THEN [last |-> corpus, state |-> "ok", overlapped |-> FALSE]
              ELSE NoHistory]
  /\ chats_col = <<>>
  /\ gemini_chats = <<>>
  /\ oid_counter = OidCounterStart
  /\ req = [s \in Slots |-> IdleReq]
  /\ started = MaxRequests - 1

NextRank ==
  \/ \E s \in Slots : RankRequestAsk(s)
  \/ \E s \in Slots : AskFind(s)
  \/ \E s \in Slots : ModelReply(s)
  \/ \E s \in Slots : ModelError(s)
  \/ \E s \in Slots : AskSave(s)

SpecRank == InitRank /\ [][NextRank]_vars

\* ---------------------------------------------------------- properties
CorpusTexts(u) == Texts(Find(paragraphs_col, u))

IsPrefix(a, b) == Len(a) <= Len(b) /\ a = SubSeq(b, 1, Len(a))

\* an upload of u has cleared the corpus and has not yet answered
Uploading(u) ==
  \E s \in Slots : /\ req[s].kind = "upload" /\ req[s].username = u
                   /\ req[s].pc \in {"file", "insert"}

AskRanked(s) == req[s].kind = "ask" /\ req[s].pc \in {"model", "save"}

\* C1, as claimed: whenever no upload of an owner is running, also after
\* uploads of that owner have interleaved, the owner's corpus is empty or
\* exactly the paragraphs of the owner's most recent upload.
C1_CorpusIsEmptyOrLatestUpload ==
  \A u \in Users :
    ~Uploading(u) =>
      CorpusTexts(u) = <<>> \/ CorpusTexts(u) = hist[u].last

\* C1, amended: as long as no upload of an owner has begun while another
\* upload of that owner was running, the owner's corpus is a prefix, in
\* extraction order, of the paragraphs of the owner's most recent upload, and
\* all of them once that upload has answered with success; an ask matches
\* only paragraphs of the upload that was the most recent when it read the
\* corpus.
C1_SerialUploadsReplaceCorpus ==
  \A u \in Users :
    ~hist[u].overlapped =>
      /\ IsPrefix(CorpusTexts(u), hist[u].last)
      /\ (~Uploading(u) /\ hist[u].state = "ok") => CorpusTexts(u) = hist[u].last
      /\ \A s \in Slots :
           (AskRanked(s) /\ req[s].username = u) =>
             Range(req[s].top_paragraphs) \subseteq Range(req[s].seen_upload)

\* C1 witness: u uploaded FileA and FileB, then FileB alone, one upload after
\* the other, and the corpus is the paragraph of FileB.
C1_Witness ==
  /\ req["t2"].kind = "upload" /\ req["t2"].pc = "done" /\ req["t2"].status = 200
  /\ req["t2"].username = "u" /\ req["t2"].inserted = 3
  /\ req["t1"].kind = "upload" /\ req["t1"].pc = "done" /\ req["t1"].status = 200
  /\ req["t1"].username = "u" /\ req["t1"].inserted = 1 /\ req["t1"].deleted = 3
  /\ ~hist["u"].overlapped
  /\ CorpusTexts("u") = <<<<"O","x">>>>

\* C2, as claimed: a request answered with a validation error has written
\* nothing; an upload without a files part leaves the stored paragraphs.
C2_ValidationErrorWritesNothing ==
  \A s \in Slots :
    (req[s].pc = "done" /\ req[s].status = 400) =>
      req[s].inserted = 0 /\ req[s].deleted = 0

\* the ranking of C3: the paragraphs of positive score, by score descending
\* and by corpus position among equal scores, cut to TopK
Ranked(corpus, keywords, top) ==
  LET sc(k) == Score(corpus[k], keywords)
      pos == {k \in 1..Len(corpus) : sc(k) > 0}
  IN  /\ Len(top) = Min(TopK, Cardinality(pos))
      /\ \E idx \in [1..Len(top) -> pos] :
           /\ \A k \in 1..Len(top) : top[k] = corpus[idx[k]]
           /\ \A k, l \in 1..Len(top) :
                k < l => \/ sc(idx[k]) > sc(idx[l])
                         \/ sc(idx[k]) = sc(idx[l]) /\ idx[k] < idx[l]
           /\ \A j \in pos \ Range(idx) : \A k \in 1..Len(top) :
                \/ sc(j) < sc(idx[k])
                \/ sc(j) = sc(idx[k]) /\ j > idx[k]

AskKeywords(s) == SplitWords(Lower(Strip(req[s].raw)))

SomeMatch(corpus, keywords) ==
  \E k \in 1..Len(corpus) : Score(corpus[k], keywords) > 0

ExampleCorpus ==
  << <<"T","h","e"," ","c","a","t"," ","s","a","t",".">>,
     <<"D","o","g","s"," ","b","a","r","k"," ","l","o","u","d","l","y",".">>,
     <<"C","a","t","s"," ","a","n","d"," ","d","o","g","s"," ","p","l","a","y",".">> >>

ExampleRanking == <<ExampleCorpus[3], ExampleCorpus[1], ExampleCorpus[2]>>

\* C3: when some keyword of the question occurs in some paragraph, ask selects
\* at most 3 paragraphs, each of score > 0, by score descending, equal scores
\* in corpus order, and leaves out none that ranks before a selected one; the
\* corpus of the example with "cat dog" gives the ranking of the example.
C3_RankingContract ==
  \A s \in Slots :
    AskRanked(s) =>
      LET corpus == CorpusTexts(req[s].username)
      IN  /\ SomeMatch(corpus, AskKeywords(s)) =>
               /\ Len(req[s].top_paragraphs) <= 3
               /\ Ranked(corpus, AskKeywords(s), req[s].top_paragraphs)
          /\ (corpus = ExampleCorpus /\ req[s].raw = <<"c","a","t"," ","d","o","g">>)
               => req[s].top_paragraphs = ExampleRanking

\* C3 witness: a question with a repeated keyword against a corpus of four
\* paragraphs, three of them of equal score 2 and one of score 0: the three
\* are selected in corpus order.
C3_Witness ==
  \E s \in Slots :
    /\ AskRanked(s)
    /\ req[s].raw = <<" ","C","A","T"," "," ","c","a","t"," ">>
    /\ CorpusTexts("u") =
         <<ExampleCorpus[2], ExampleCorpus[1], ExampleCorpus[3], ExampleCorpus[1]>>
    /\ req[s].top_paragraphs = <<ExampleCorpus[1], ExampleCorpus[3], ExampleCorpus[1]>>

\* the fallback of C4: the first paragraphs of the corpus, as the context of
\* the prompt the model is called with
FellBack(s) ==
  LET corpus == CorpusTexts(req[s].username)
  IN  /\ req[s].pc \in {"model", "save"} \/ (req[s].pc = "done" /\ req[s].calls = 1)
      /\ req[s].pc \in {"model", "save"} =>
           /\ req[s].top_paragraphs = SubSeq(corpus, 1, Min(3, Len(corpus)))
           /\ req[s].prompt = Prompt(SubSeq(corpus, 1, Min(3, Len(corpus))),
                                     Strip(req[s].raw))

ZeroMatchAsk(s) ==
  /\ req[s].kind = "ask" /\ req[s].pc # "start" /\ req[s].username # ""
  /\ CorpusTexts(req[s].username) # <<>>
  /\ ~SomeMatch(CorpusTexts(req[s].username), AskKeywords(s))

\* C4, as claimed: an ask on a non-empty corpus whose question has no
\* matching keyword, the empty question included, selects the first
\* min(3, |corpus|) paragraphs in stored order and goes on to the model call.
C4_ZeroMatchFallsBack ==
  \A s \in Slots : ZeroMatchAsk(s) => FellBack(s)

\* C4, amended: an ask on a non-empty corpus whose question is not empty
\* after trimming and has no matching keyword selects the first
\* min(3, |corpus|) paragraphs in stored order and goes on to the model call
\* with them as context; an ask whose question is empty after trimming is
\* answered with the validation error, without ranking or model call.
C4_NonEmptyZeroMatchFallsBack ==
  \A s \in Slots :
    /\ (ZeroMatchAsk(s) /\ Strip(req[s].raw) # <<>>) => FellBack(s)
    /\ (ZeroMatchAsk(s) /\ Strip(req[s].raw) = <<>>) =>
         /\ req[s].pc = "done" /\ req[s].status = 400
         /\ req[s].calls = 0 /\ req[s].inserted = 0

\* C4 witness: no paragraph of a corpus of four contains "yak"; the first
\* three are selected.
C4_Witness ==
  \E s \in Slots :
    /\ ZeroMatchAsk(s) /\ req[s].pc = "model"
    /\ req[s].raw = <<"y","a","k">>
    /\ Len(CorpusTexts("u")) = 4
    /\ req[s].top_paragraphs = SubSeq(CorpusTexts("u"), 1, 3)

\* the step of thread s
Steps(s) == req'[s] # req[s]

\* C5: the step in which an ask with a question and a username reads an
\* empty corpus answers not-found, with no language-model call made and both
\* chat collections as they were.
C5_EmptyCorpusNotFound ==
  [][\A s \in Slots :
       ( /\ Steps(s) /\ req[s].kind = "ask" /\ req[s].pc = "start"
         /\ Strip(req[s].raw) # <<>> /\ req[s].username # ""
         /\ Find(paragraphs_col, req[s].username) = <<>> )
       => /\ req'[s].pc = "done" /\ req'[s].status = 404
          /\ req'[s].calls = 0 /\ req'[s].inserted = 0
          /\ chats_col' = chats_col /\ gemini_chats' = gemini_chats]_vars

\* C5 witness: v, who has no corpus, asked "cat" and was answered not-found
\* while u has a corpus.
C5_Witness ==
  \E s \in Slots :
    /\ req[s].kind = "ask" /\ req[s].pc = "done" /\ req[s].status = 404
    /\ req[s].username = "v" /\ req[s].raw = <<"c","a","t">>
    /\ CorpusTexts("v") = <<>> /\ CorpusTexts("u") # <<>>

ChatRecords == Range(chats_col) \cup Range(gemini_chats)

Answering(s) == req[s].kind \in {"ask", "gemini"}

\* C6: every chat record has an owner, a question or message and an answer;
\* a request that saved a record made exactly one model call, which
\* succeeded; a request whose model call failed is answered with the model
\* error and the step of the failure leaves both chat collections as they
\* were.
C6_RecordOnlyAfterModelSuccess ==
  /\ [](/\ \A d \in ChatRecords :
             d.username # "" /\ d.question # <<>> /\ d.answer # "None"
        /\ \A s \in Slots :
             Answering(s) =>
               /\ req[s].calls <= 1 /\ req[s].inserted <= 1
               /\ req[s].inserted = 1 =>
                    req[s].calls = 1 /\ req[s].pc = "done" /\ req[s].status = 200
               /\ (req[s].pc = "done" /\ req[s].status = 200) =>
                    req[s].calls = 1 /\ req[s].inserted = 1
               /\ (req[s].pc = "done" /\ req[s].status = 500) =>
                    req[s].calls = 1 /\ req[s].inserted = 0)
  /\ [][\A s \in Slots :
          ( /\ Steps(s) /\ Answering(s) /\ req[s].pc = "model"
            /\ req'[s].pc = "done" )
          => /\ req'[s].status = 500
             /\ chats_col' = chats_col /\ gemini_chats' = gemini_chats]_vars

\* C6 witness: the model call of an ask failed and that of a chat
\* succeeded; the one record is the chat's.
C6_Witness ==
  \E s, t \in Slots :
    /\ req[s].kind = "ask" /\ req[s].pc = "done" /\ req[s].status = 500
    /\ req[s].calls = 1
    /\ req[t].kind = "gemini" /\ req[t].pc = "done" /\ req[t].status = 200
    /\ chats_col = <<>> /\ Len(gemini_chats) = 1

\* C7, as claimed: a deletion by a well-formed record identifier that names
\* no record of the collection is answered not-found and removes nothing,
\* also when the identifier consists of decimal digits only.
C7_DeleteMissingIdIsNotFound ==
  \A s \in Slots :
    ( /\ req[s].kind = "delete" /\ req[s].pc = "done"
      /\ req[s].source \in {"pdf", "gemini"}
      /\ ObjectIdValid(req[s].chat_id) /\ ~req[s].existed )
    => req[s].status = 404 /\ req[s].deleted = 0

\* the documents of col other than the one with this _id
Without(col, id) == SelectSeq(col, LAMBDA d : d._id # id)

OtherSource(source) == IF source = "pdf" THEN "gemini" ELSE "pdf"

\* C8: a deletion by a positional index i that is in range picks the record
\* at position i of the collection in creation order and removes that record
\* and no other; one that is out of range is answered not-found and removes
\* nothing; the other collection and the paragraphs stay as they were.
C8_DeleteByIndex ==
  [][\A s \in Slots :
       LET r == req[s]
           col == Collection(r.source)
       IN  /\ (Steps(s) /\ r.kind = "delete" /\ r.pc = "index") =>
                /\ UNCHANGED stores
                /\ IF int(r.chat_id) < Len(col)
                     THEN /\ req'[s].pc = "target"
                          /\ req'[s].target_id = col[int(r.chat_id) + 1]._id
                     ELSE req'[s].pc = "done" /\ req'[s].status = 404
           /\ (Steps(s) /\ r.kind = "delete" /\ r.pc = "target") =>
                /\ req'[s].pc = "done" /\ req'[s].status = 200
                /\ Collection(r.source)' = Without(col, r.target_id)
                /\ Collection(OtherSource(r.source))' =
                     Collection(OtherSource(r.source))
                /\ paragraphs_col' = paragraphs_col]_vars

\* C8 witness: of two chats the one at position 1 was deleted by index, the
\* one at position 0 is left.
C8_Witness ==
  \E s \in Slots :
    /\ req[s].kind = "delete" /\ req[s].pc = "done" /\ req[s].status = 200
    /\ req[s].by_index /\ req[s].deleted = 1
    /\ req[s].chat_id = <<"1">> /\ req[s].source = "gemini"
    /\ Len(gemini_chats) = 1
    /\ gemini_chats[1]._id = OidOf(OidCounterStart)

\* what the store holds for owner v
Owned(v) ==
  <<Find(paragraphs_col, v), Find(chats_col, v), Find(gemini_chats, v)>>

\* C9, as claimed: a step of a request of user u leaves every paragraph and
\* every chat record of every other owner as it was.
C9_OwnersIndependent ==
  [][\A s \in Slots :
       (Steps(s) /\ req[s].kind # "idle" /\ req[s].pc # "done") =>
         \A v \in Users \ {req[s].username} : Owned(v)' = Owned(v)]_vars

\* C10, as claimed: as long as the uploads of an owner did not interleave,
\* the indices of the owner's paragraphs are pairwise different and increase
\* in extraction order, also after an upload of more than one file.
C10_IndexUniqueInExtractionOrder ==
  \A u \in Users :
    ~hist[u].overlapped =>
      LET docs == Find(paragraphs_col, u)
      IN  \A k, l \in 1..Len(docs) : k < l => docs[k].index < docs[l].index

====
